---- MODULE Spec2Model ----
(***************************************************************************)
(* Model of src/main.py: the OpportunityExpander service.                  *)
(*                                                                         *)
(* State: the process environment and start-up phase, the rows of the     *)
(* competitor_summary table, and for every request the position of its    *)
(* handler (expand_opportunities_analysis) together with its locals.      *)
(* The handler is cut at its three remote calls (select, model call,      *)
(* update), which is where requests served by different workers can       *)
(* interleave.  The remote collaborators answer nondeterministically.      *)
(***************************************************************************)
EXTENDS Integers, Sequences, FiniteSets, TLC

\* ---------------------------------------------------------------- bounds
NumReqs == 2

Reqs == 1..NumReqs
Brands == {"acme", "zen"}
ModelStrings == {"m1", "m2"}
Removable == {"zen"}

\* --------------------------------------------------------- configuration
EnvNames == {"OPENAI_API_KEY", "SUPABASE_URL", "SUPABASE_KEY"}
\* os.getenv(name): None ("absent"), '' ("empty") or a usable value ("set")
EnvValues == {"absent", "empty", "set"}

VARIABLES
    environ,          \* process environment after load_dotenv()
    phase,            \* "boot" | "imported" | "serving" | "crashed"
    startupLog,       \* what lifespan logged: "none" | "error" | "info"
    store,            \* competitor_summary: brand_name -> row
    origRows,         \* the brands that had a row when the process started (history)
    deleted,          \* brands whose row another system removed (history)
    pc,               \* per request: "idle" | "fetch" | "analyze" | "update" | "done"
    brand_name,       \* per request: the path parameter
    summary_data,     \* per request: local of the handler
    detailed_analysis,\* per request: local of the handler
    response,         \* per request: the HTTP response
    log,              \* per request: remote calls issued and the response, in order (history)
    fetchSaw,         \* per request: what the table held at the select (history)
    selectReply,      \* per request: how the select was answered (history)
    modelReply,       \* per request: how the model call was answered (history)
    updateSaw,        \* per request: what the table held at the update (history)
    raisedBy,         \* per request: the step whose exception reached the handler (history)
    raisedExc,        \* per request: that exception (history)
    updateRet,        \* per request: outcome of update_opportunities_analysis (history)
    writes,           \* per request: rows its update changed in the table (history)
    lastWriter,       \* per brand: the request whose update changed the row last (history)
    rootResult        \* what the last GET / obtained

vars == <<environ, phase, startupLog, store, origRows, deleted, pc, brand_name,
          summary_data, detailed_analysis, response, log, fetchSaw, selectReply,
          modelReply, updateSaw, raisedBy, raisedExc, updateRet, writes, lastWriter,
          rootResult>>

reqVars == <<pc, brand_name, summary_data, detailed_analysis, response, log, fetchSaw,
             selectReply, modelReply, updateSaw, raisedBy, raisedExc, updateRet, writes>>

\* ------------------------------------------------------------ exceptions
NoExc == [kind |-> "none", text |-> ""]
Exc(kind, text) == [kind |-> kind, text |-> text]

\* Python's exception hierarchy for the kinds that occur: pydantic's
\* ValidationError derives from ValueError.
IsValueError(kind) == kind \in {"ValueError", "ValidationError"}

Returned(v) == [raised |-> FALSE, exc |-> NoExc, value |-> v]
Raised(e) == [raised |-> TRUE, exc |-> e, value |-> <<>>]

\* ------------------------------------------------------------ the table
OrigDetailed == "orig"

OrigRow(b) ==
    [brand_name |-> b, competitive_summary |-> "S", gaps_opportunities |-> "G",
     detailed_opportunities |-> OrigDetailed]

\* select('competitive_summary, gaps_opportunities').eq('brand_name', b)
StoreSelect(st, b) ==
    IF b \in DOMAIN st
    THEN << [competitive_summary |-> st[b].competitive_summary,
             gaps_opportunities |-> st[b].gaps_opportunities] >>
    ELSE << >>

StoreUpdate_wrongcolumn(st, b, value) ==
    IF b \in DOMAIN st
    THEN [store |-> [st EXCEPT ![b].gaps_opportunities = value],
          data |-> << [st[b] EXCEPT !.gaps_opportunities = value] >>]
    ELSE [store |-> st, data |-> << >>]

StoreUpdate_ifunset(st, b, value) ==
    IF b \in DOMAIN st
    THEN IF st[b].detailed_opportunities = "orig"
         THEN [store |-> [st EXCEPT ![b].detailed_opportunities = value],
               data |-> << [st[b] EXCEPT !.detailed_opportunities = value] >>]
         ELSE [store |-> st, data |-> << st[b] >>]
    ELSE [store |-> st, data |-> << >>]

StoreUpdate_upsert(st, b, value) ==
    LET row == IF b \in DOMAIN st THEN st[b] ELSE OrigRow(b)
        new == [row EXCEPT !.detailed_opportunities = value]
    IN  [store |-> [x \in DOMAIN st \cup {b} |-> IF x = b THEN new ELSE st[x]],
         data |-> <<new>>]

\* update({'detailed_opportunities': value}).eq('brand_name', b): the rows
\* that match are patched and returned; nothing matches, nothing changes.
StoreUpdate(st, b, value) ==
    IF b \in DOMAIN st
    THEN [store |-> [st EXCEPT ![b].detailed_opportunities = value],
          data |-> << [st[b] EXCEPT !.detailed_opportunities = value] >>]
    ELSE [store |-> st, data |-> << >>]

\* ------------------------------------------------- replies of the remotes
\* The select either answers or fails in transport.
SelectReplies == {"answer", "error"}
\* The model call returns a parsed object, a refusal (parsed is None), fails
\* in transport, or fails validating the model's output against the schema.
ModelReplies ==
    {[kind |-> "parsed", text |-> s] : s \in ModelStrings}
        \cup {[kind |-> "refusal", text |-> ""],
              [kind |-> "error", text |-> "model unavailable"],
              [kind |-> "invalid", text |-> "invalid model output"]}
\* The update answers, fails before reaching the table, or is applied and
\* its answer is lost.
UpdateReplies == {"answer", "error", "lost"}
NoReply == [kind |-> "none", text |-> ""]

None == [detailed_opportunities |-> "", is_none |-> TRUE]
Parsed(s) == [detailed_opportunities |-> s, is_none |-> FALSE]

\* ------------------------------------------------------------ functions
NotFoundText(b) == "No summary data found for " \o b

get_summary_data_silent(b, st, reply) ==
    IF reply = "error"
    THEN Raised(Exc("APIError", "store unavailable"))
    ELSE LET data == StoreSelect(st, b)
         IN  IF data = << >>
             THEN Returned(<< >>)
             ELSE Returned(data[1])

get_summary_data_unchecked(b, st, reply) ==
    IF reply = "error"
    THEN Raised(Exc("APIError", "store unavailable"))
    ELSE LET data == StoreSelect(st, b)
         IN  IF data = << >>
             THEN Raised(Exc("IndexError", "list index out of range"))
             ELSE Returned(data[1])

get_summary_data(b, st, reply) ==
    IF reply = "error"
    THEN Raised(Exc("APIError", "store unavailable"))
    ELSE LET data == StoreSelect(st, b)
         IN  IF data = << >>
             THEN Raised(Exc("ValueError", NotFoundText(b)))
             ELSE Returned(data[1])

analyze_opportunities(b, summary, reply) ==
    CASE reply.kind = "parsed" -> Returned(Parsed(reply.text))
      [] reply.kind = "refusal" -> Returned(None)
      [] reply.kind = "error" -> Raised(Exc("APIError", reply.text))
      [] reply.kind = "invalid" -> Raised(Exc("ValidationError", reply.text))

\* Result of update_opportunities_analysis: what it returns or raises, the
\* table afterwards, whether the remote update was issued, and the rows the
\* table changed.
UpdateResult(r, st, issued, data) ==
    [raised |-> r.raised, exc |-> r.exc, value |-> r.value,
     store |-> st, issued |-> issued, data |-> data]

update_opportunities_analysis_swallow(b, analysis, st, reply) ==
    IF analysis.is_none
    THEN UpdateResult(
            Raised(Exc("AttributeError",
                       "'NoneType' object has no attribute 'detailed_opportunities'")),
            st, FALSE, << >>)
    ELSE IF reply = "error"
    THEN UpdateResult(Raised(Exc("APIError", "store unavailable")), st, TRUE, << >>)
    ELSE LET u == StoreUpdate(st, b, analysis.detailed_opportunities)
         IN  IF reply = "lost"
             THEN UpdateResult(Raised(Exc("APIError", "store unavailable")),
                               u.store, TRUE, u.data)
             ELSE IF u.data = << >>
             THEN UpdateResult(Returned(<< >>), u.store, TRUE, u.data)
             ELSE UpdateResult(Returned(u.data[1]), u.store, TRUE, u.data)

\* The try body issues the update and returns response.data[0]; the except
\* clause logs and re-raises what the body raised.
update_opportunities_analysis(b, analysis, st, reply) ==
    IF analysis.is_none
    THEN UpdateResult(
            Raised(Exc("AttributeError",
                       "'NoneType' object has no attribute 'detailed_opportunities'")),
            st, FALSE, << >>)
    ELSE IF reply = "error"
    THEN UpdateResult(Raised(Exc("APIError", "store unavailable")), st, TRUE, << >>)
    ELSE LET u == StoreUpdate(st, b, analysis.detailed_opportunities)
         IN  IF reply = "lost"
             THEN UpdateResult(Raised(Exc("APIError", "store unavailable")),
                               u.store, TRUE, u.data)
             ELSE IF u.data = << >>
             THEN UpdateResult(Raised(Exc("IndexError", "list index out of range")),
                               u.store, TRUE, u.data)
             ELSE UpdateResult(Returned(u.data[1]), u.store, TRUE, u.data)

\* ------------------------------------------------------------- responses
NoResponse == [status |-> 0]

OpportunitiesResponse(b, s) ==
    [status |-> 200, brand_name |-> b, detailed_opportunities |-> s]

HTTPException(code, detail) == [status |-> code, detail |-> detail]

\* the except clauses of expand_opportunities_analysis
ExceptionResponse(e) ==
    IF IsValueError(e.kind)
    THEN HTTPException(404, e.text)
    ELSE HTTPException(500, e.text)

RootBody == [status |-> "API is running"]
NoAnswer == [status |-> "none"]
Refused == [status |-> "connection refused"]

\* ------------------------------------------------------------------ Init
Init ==
    /\ environ \in [EnvNames -> EnvValues]
    /\ phase = "boot"
    /\ startupLog = "none"
    /\ origRows \in {{"acme"}, Brands}
    /\ store = [b \in origRows |-> OrigRow(b)]
    /\ deleted = {}
    /\ pc = [r \in Reqs |-> "idle"]
    /\ brand_name = [r \in Reqs |-> "acme"]
    /\ summary_data = [r \in Reqs |-> << >>]
    /\ detailed_analysis = [r \in Reqs |-> None]
    /\ response = [r \in Reqs |-> NoResponse]
    /\ log = [r \in Reqs |-> << >>]
    /\ fetchSaw = [r \in Reqs |-> "pending"]
    /\ selectReply = [r \in Reqs |-> "pending"]
    /\ modelReply = [r \in Reqs |-> NoReply]
    /\ updateSaw = [r \in Reqs |-> "pending"]
    /\ raisedBy = [r \in Reqs |-> "none"]
    /\ raisedExc = [r \in Reqs |-> NoExc]
    /\ updateRet = [r \in Reqs |-> "pending"]
    /\ writes = [r \in Reqs |-> {}]
    /\ lastWriter = [b \in Brands |-> 0]
    /\ rootResult = NoAnswer

\* --------------------------------------------------------------- startup
\* OpenAI(api_key=None) raises OpenAIError; create_client raises
\* SupabaseException when the url or the key is None or ''.
ClientsConstructible(env) ==
    /\ env["OPENAI_API_KEY"] # "absent"
    /\ env["SUPABASE_URL"] = "set"
    /\ env["SUPABASE_KEY"] = "set"

\* Importing the module: app, client and supabase are created at top level.
ImportModule ==
    /\ phase = "boot"
    /\ phase' = IF ClientsConstructible(environ) THEN "imported" ELSE "crashed"
    /\ UNCHANGED <<environ, startupLog, store, origRows, deleted, lastWriter, rootResult>>
    /\ UNCHANGED reqVars

AllSet(env) == \A n \in EnvNames : env[n] = "set"

lifespan ==
    /\ phase = "imported"
    /\ startupLog' = IF ~AllSet(environ) THEN "error" ELSE "info"
    /\ phase' = "serving"
    /\ UNCHANGED <<environ, store, origRows, deleted, lastWriter, rootResult>>
    /\ UNCHANGED reqVars

\* ---------------------------------------------------------------- GET /
root ==
    /\ phase = "serving"
    /\ rootResult' = RootBody
    /\ UNCHANGED <<environ, phase, startupLog, store, origRows, deleted, lastWriter>>
    /\ UNCHANGED reqVars

\* A GET / sent to a process that died while importing gets no answer.
RootUnserved ==
    /\ phase = "crashed"
    /\ rootResult' = Refused
    /\ UNCHANGED <<environ, phase, startupLog, store, origRows, deleted, lastWriter>>
    /\ UNCHANGED reqVars

\* ------------------------------------------- POST /opportunities/{brand}
NextPc_noabort(step, raised) ==
    CASE step = "fetch" -> "analyze"
      [] step = "analyze" -> "update"
      [] step = "update" -> "done"

\* The try block: statements run in order, and an exception leaves the block
\* for the except clauses, which end the request.
NextPc(step, raised) ==
    IF raised
    THEN "done"
    ELSE CASE step = "fetch" -> "analyze"
           [] step = "analyze" -> "update"
           [] step = "update" -> "done"

\* except ValueError / except Exception: the response and what was caught
Caught(r, step, e) ==
    /\ response' = [response EXCEPT ![r] = ExceptionResponse(e)]
    /\ raisedBy' = [raisedBy EXCEPT ![r] = step]
    /\ raisedExc' = [raisedExc EXCEPT ![r] = e]

Receive(r, b) ==
    /\ phase = "serving"
    /\ pc[r] = "idle"
    /\ \A q \in Reqs : q < r => pc[q] # "idle"
    /\ pc' = [pc EXCEPT ![r] = "fetch"]
    /\ brand_name' = [brand_name EXCEPT ![r] = b]
    /\ UNCHANGED <<environ, phase, startupLog, store, origRows, deleted, lastWriter,
                   rootResult, summary_data, detailed_analysis, response, log, fetchSaw,
                   selectReply, modelReply, updateSaw, raisedBy, raisedExc, updateRet,
                   writes>>

\* summary_data = get_summary_data(brand_name)
Fetch(r) ==
    /\ pc[r] = "fetch"
    /\ \E reply \in SelectReplies :
         LET res == get_summary_data(brand_name[r], store, reply)
         IN  /\ fetchSaw' = [fetchSaw EXCEPT ![r] =
                    IF brand_name[r] \in DOMAIN store THEN "present" ELSE "absent"]
             /\ selectReply' = [selectReply EXCEPT ![r] = reply]
             /\ pc' = [pc EXCEPT ![r] = NextPc("fetch", res.raised)]
             /\ IF res.raised
                THEN /\ Caught(r, "fetch", res.exc)
                     /\ log' = [log EXCEPT ![r] = @ \o <<"fetch", "respond">>]
                     /\ UNCHANGED summary_data
                ELSE /\ summary_data' = [summary_data EXCEPT ![r] = res.value]
                     /\ log' = [log EXCEPT ![r] = @ \o <<"fetch">>]
                     /\ UNCHANGED <<response, raisedBy, raisedExc>>
    /\ UNCHANGED <<environ, phase, startupLog, store, origRows, deleted, lastWriter,
                   rootResult, brand_name, detailed_analysis, modelReply, updateSaw,
                   updateRet, writes>>

\* detailed_analysis = analyze_opportunities(brand_name, summary_data)
Analyze(r) ==
    /\ pc[r] = "analyze"
    /\ \E reply \in ModelReplies :
         LET res == analyze_opportunities(brand_name[r], summary_data[r], reply)
         IN  /\ modelReply' = [modelReply EXCEPT ![r] = reply]
             /\ pc' = [pc EXCEPT ![r] = NextPc("analyze", res.raised)]
             /\ IF res.raised
                THEN /\ Caught(r, "model", res.exc)
                     /\ log' = [log EXCEPT ![r] = @ \o <<"model", "respond">>]
                     /\ UNCHANGED detailed_analysis
                ELSE /\ detailed_analysis' = [detailed_analysis EXCEPT ![r] = res.value]
                     /\ log' = [log EXCEPT ![r] = @ \o <<"model">>]
                     /\ UNCHANGED <<response, raisedBy, raisedExc>>
    /\ UNCHANGED <<environ, phase, startupLog, store, origRows, deleted, lastWriter,
                   rootResult, brand_name, summary_data, fetchSaw, selectReply, updateSaw,
                   updateRet, writes>>

\* updated_data = update_opportunities_analysis(brand_name, detailed_analysis)
\* followed by the return of the OpportunitiesResponse
Update(r) ==
    /\ pc[r] = "update"
    /\ \E reply \in UpdateReplies :
         LET res == update_opportunities_analysis(brand_name[r], detailed_analysis[r],
                                                  store, reply)
             called == IF res.issued THEN <<"update">> ELSE << >>
             rows == {res.data[i] : i \in 1..Len(res.data)}
         IN  /\ store' = res.store
             /\ writes' = [writes EXCEPT ![r] = rows]
             /\ lastWriter' = [b \in Brands |->
                    IF \E w \in rows : w.brand_name = b THEN r ELSE lastWriter[b]]
             /\ updateSaw' = [updateSaw EXCEPT ![r] =
                    IF ~res.issued THEN "unissued"
                    ELSE IF brand_name[r] \in DOMAIN store THEN "present" ELSE "absent"]
             /\ log' = [log EXCEPT ![r] = @ \o called \o <<"respond">>]
             /\ pc' = [pc EXCEPT ![r] = NextPc("update", res.raised)]
             /\ IF res.raised
                THEN /\ Caught(r, "update", res.exc)
                     /\ updateRet' = [updateRet EXCEPT ![r] = "raised"]
                ELSE /\ updateRet' = [updateRet EXCEPT ![r] = "returned"]
                     /\ response' = [response EXCEPT ![r] =
                            OpportunitiesResponse(brand_name[r],
                                detailed_analysis[r].detailed_opportunities)]
                     /\ UNCHANGED <<raisedBy, raisedExc>>
    /\ UNCHANGED <<environ, phase, startupLog, origRows, deleted, rootResult,
                   brand_name, summary_data, detailed_analysis, fetchSaw, selectReply,
                   modelReply>>

\* ------------------------------------------------------- the environment
\* Another system removes a summary row (the rows of Removable come and go).
EnvDelete(b) ==
    /\ phase = "serving"
    /\ b \in DOMAIN store \cap Removable
    /\ store' = [x \in DOMAIN store \ {b} |-> store[x]]
    /\ deleted' = deleted \cup {b}
    /\ UNCHANGED <<environ, phase, startupLog, origRows, lastWriter, rootResult>>
    /\ UNCHANGED reqVars

Next ==
    \/ ImportModule
    \/ lifespan
    \/ root
    \/ RootUnserved
    \/ \E r \in Reqs, b \in Brands : Receive(r, b)
    \/ \E r \in Reqs : Fetch(r)
    \/ \E r \in Reqs : Analyze(r)
    \/ \E r \in Reqs : Update(r)
    \/ \E b \in Removable : EnvDelete(b)

Spec == Init /\ [][Next]_vars

\* ================================================================ claims
Has(l, e) == \E i \in 1..Len(l) : l[i] = e
Count(l, e) == Cardinality({i \in 1..Len(l) : l[i] = e})
IsError(resp) == resp.status \in {404, 500}

\* C1 (as stated): whenever the table holds no row for the brand at the
\* fetch step, the response is 404, the model is never called and no update
\* is issued.
C1_AbsentRowAlways404 ==
    \A r \in Reqs :
        fetchSaw[r] = "absent" =>
            /\ response[r].status = 404
            /\ ~Has(log[r], "model")
            /\ ~Has(log[r], "update")

\* C1 (amended): whenever the select of the fetch step answers and the table
\* holds no row for the brand, the request ends at once with 404 and the
\* not-found text; and whether or not the select answers, with no row at the
\* fetch step the response is never a success, the model is never called and
\* no update is issued.
C1_AbsentRowAnswered404 ==
    \A r \in Reqs :
        fetchSaw[r] = "absent" =>
            /\ pc[r] = "done"
            /\ response[r].status # 200
            /\ ~Has(log[r], "model")
            /\ ~Has(log[r], "update")
            /\ writes[r] = {}
            /\ selectReply[r] = "answer" =>
                 response[r] = HTTPException(404, NotFoundText(brand_name[r]))

C1_Witness ==
    \E r \in Reqs :
        /\ fetchSaw[r] = "absent"
        /\ selectReply[r] = "answer"
        /\ response[r].status = 404

\* C2: a step that sends a success response leaves the brand's row holding
\* exactly the string the model returned to this request, and the response
\* carries that string and the path parameter.
C2_SuccessStoresModelString ==
    [][\A r \in Reqs :
         (response[r] = NoResponse /\ response'[r].status = 200) =>
            /\ modelReply[r].kind = "parsed"
            /\ brand_name[r] \in DOMAIN store'
            /\ store'[brand_name[r]].detailed_opportunities = modelReply[r].text
            /\ response'[r] = [status |-> 200, brand_name |-> brand_name[r],
                               detailed_opportunities |-> modelReply[r].text]]_vars

C2_Witness ==
    \E r \in Reqs :
        /\ response[r].status = 200
        /\ brand_name[r] \in DOMAIN store
        /\ store[brand_name[r]].detailed_opportunities = response[r].detailed_opportunities
        /\ response[r].detailed_opportunities \in ModelStrings

\* C3 (as stated): an error raised by the model call or by the persistence
\* step, of whatever kind, is answered with 500 and the error's text; a 404
\* comes only from the fetch step finding no row.
C3_LaterErrorsGive500 ==
    \A r \in Reqs :
        /\ raisedBy[r] \in {"model", "update"} =>
              response[r] = HTTPException(500, raisedExc[r].text)
        /\ response[r].status = 404 =>
              /\ raisedBy[r] = "fetch"
              /\ fetchSaw[r] = "absent"

\* C4: within a request the model is called only after a fetch that returned
\* the row, the update is issued only after the model call returned its
\* result, and a success response follows a completed update.
C4_StepOrder ==
    \A r \in Reqs :
        LET l == log[r]
        IN  /\ Has(l, "model") =>
                /\ Len(l) >= 2 /\ l[1] = "fetch" /\ l[2] = "model"
                /\ fetchSaw[r] = "present" /\ selectReply[r] = "answer"
                /\ summary_data[r] = [competitive_summary |-> "S",
                                      gaps_opportunities |-> "G"]
            /\ Has(l, "update") =>
                /\ Len(l) >= 3 /\ l[1] = "fetch" /\ l[2] = "model" /\ l[3] = "update"
                /\ modelReply[r].kind = "parsed"
            /\ response[r].status = 200 =>
                /\ l = <<"fetch", "model", "update", "respond">>
                /\ updateRet[r] = "returned"
                /\ updateSaw[r] = "present"
            /\ Has(l, "respond") => l[Len(l)] = "respond"

C4_Witness ==
    \E r \in Reqs :
        /\ response[r].status = 200
        /\ log[r] = <<"fetch", "model", "update", "respond">>

\* C5: the service creates and deletes no row and writes no field but
\* detailed_opportunities, and a request writes only the row of its own brand.
C5_Frame ==
    /\ DOMAIN store = origRows \ deleted
    /\ \A b \in DOMAIN store :
          /\ store[b].brand_name = b
          /\ store[b].competitive_summary = OrigRow(b).competitive_summary
          /\ store[b].gaps_opportunities = OrigRow(b).gaps_opportunities
          /\ store[b].detailed_opportunities # OrigDetailed =>
                \E r \in Reqs : brand_name[r] = b /\ Has(log[r], "update")
    /\ \A r \in Reqs : \A w \in writes[r] : w.brand_name = brand_name[r]

C5_Witness ==
    /\ DOMAIN store = Brands
    /\ store["acme"].detailed_opportunities \in ModelStrings
    /\ store["zen"] = OrigRow("zen")
    /\ \E r \in Reqs : brand_name[r] = "zen" /\ pc[r] = "done"

\* C6: each of fetch, model call and update is attempted at most once per
\* request, a failed fetch or model call ends the request without any write,
\* a request has a response exactly when it has ended, it responds once, and
\* the response is an error whenever a step failed.
C6_AbortNoRetry ==
    \A r \in Reqs :
        /\ Count(log[r], "fetch") <= 1
        /\ Count(log[r], "model") <= 1
        /\ Count(log[r], "update") <= 1
        /\ Count(log[r], "respond") <= 1
        /\ raisedBy[r] \in {"fetch", "model"} =>
              /\ writes[r] = {}
              /\ ~Has(log[r], "update")
              /\ lastWriter[brand_name[r]] # r
        /\ raisedBy[r] = "fetch" => ~Has(log[r], "model")
        /\ (pc[r] = "done") <=> (response[r] # NoResponse)
        /\ (pc[r] = "done") <=> (Count(log[r], "respond") = 1)
        /\ raisedBy[r] # "none" => (pc[r] = "done" /\ IsError(response[r]))
        /\ response[r].status = 200 => raisedBy[r] = "none"

C6_Witness ==
    \E r \in Reqs :
        /\ raisedBy[r] = "model"
        /\ pc[r] = "done"
        /\ IsError(response[r])
        /\ log[r] = <<"fetch", "model", "respond">>

\* C7 (as stated): in every configuration a GET / is answered with the
\* running body.
C7_RootAlwaysAnswers == rootResult \in {NoAnswer, RootBody}

\* C8 (as stated): whatever configuration values are missing, start-up is
\* never fatal.
C8_StartupNeverFatal == phase # "crashed"

\* C9: update_opportunities_analysis either returns the updated row, which
\* carries the analysis text, or raises, and the handler answers with the
\* error raised; when the update matches no row it raises, the request is
\* not a success and no row is created.
C9_UpdateOutcomes ==
    \A r \in Reqs :
        /\ updateRet[r] = "returned" =>
              /\ writes[r] = {[OrigRow(brand_name[r]) EXCEPT
                     !.detailed_opportunities =
                         detailed_analysis[r].detailed_opportunities]}
              /\ response[r].status = 200
        /\ updateRet[r] = "raised" =>
              /\ raisedBy[r] = "update"
              /\ response[r] = ExceptionResponse(raisedExc[r])
        /\ updateSaw[r] = "absent" =>
              /\ updateRet[r] = "raised"
              /\ raisedExc[r].kind \in {"IndexError", "APIError"}
              /\ response[r].status = 500
              /\ brand_name[r] \notin DOMAIN store
        /\ updateSaw[r] = "unissued" =>
              /\ updateRet[r] = "raised"
              /\ raisedExc[r].kind = "AttributeError"

C9_Witness ==
    \E r \in Reqs :
        /\ fetchSaw[r] = "present"
        /\ updateSaw[r] = "absent"
        /\ raisedExc[r].kind = "IndexError"
        /\ response[r].status = 500

\* C10: a success response carries the string of the request's own model
\* call; a stored detailed_opportunities is the original value or a string
\* some request for that brand got from the model; and it is the string of
\* the request whose update changed the row last.
C10_Concurrent ==
    /\ \A r \in Reqs :
          response[r].status = 200 =>
             /\ modelReply[r].kind = "parsed"
             /\ response[r].detailed_opportunities = modelReply[r].text
    /\ \A b \in DOMAIN store :
          /\ store[b].detailed_opportunities \in
                {OrigDetailed} \cup
                {modelReply[r].text : r \in {q \in Reqs : /\ brand_name[q] = b
                                                         /\ modelReply[q].kind = "parsed"}}
          /\ lastWriter[b] = 0 => store[b].detailed_opportunities = OrigDetailed
          /\ lastWriter[b] # 0 =>
                store[b].detailed_opportunities = modelReply[lastWriter[b]].text

C10_Witness ==
    /\ response[1].status = 200
    /\ response[2].status = 200
    /\ brand_name[1] = brand_name[2]
    /\ response[1].detailed_opportunities # response[2].detailed_opportunities
    /\ lastWriter[brand_name[1]] = 1
    /\ store[brand_name[1]].detailed_opportunities = response[1].detailed_opportunities

====
